---------------------------- MODULE Spec2Model ----------------------------
(***************************************************************************)
(* A model of algolite: the filter compiler (src/src/parseAlgoliaSQL.js)   *)
(* and the HTTP server of src/index.js: its nine routes, each followed     *)
(* from one await to the next, the error wrapper around them, and several  *)
(* requests in flight at once.                                             *)
(*                                                                         *)
(* JavaScript values are modelled as follows.                              *)
(*   - a string is a TLA+ string; concatenation is \o;                     *)
(*   - an optional value (a field that may be undefined) is a sequence of  *)
(*     length 0 (undefined) or 1;                                          *)
(*   - an index expression is a record: a plain string s is Term(s), the   *)
(*     value of db.AND(a, b) is [op |-> "AND", args |-> <<a, b>>];         *)
(*   - a call that may throw returns [ok |-> TRUE, ...] or                 *)
(*     [ok |-> FALSE, error |-> e].                                        *)
(***************************************************************************)
EXTENDS Integers, Sequences, FiniteSets, TLC

VARIABLES
    pc,          \* per handler: the await it is suspended at, idle or done
    req,         \* per handler: the request
    searchExp,   \* per handler: the clauses built for the search
    dbCalls,     \* per handler: the calls made on the index, in order
    result,      \* per handler: what db.SEARCH and db.INDEX.GET resolved with
    resCalls,    \* per handler: the calls that send a response, in order
    thrown,      \* per handler: what its promise rejected with, not yet caught
    caught,      \* per handler: the error the wrapper caught (<<>> when none)
    unhandled,   \* per handler: the wrapper's own promise rejected
    running,     \* the process has not exited
    rule,        \* input of the compiler when run on its own
    compiled,    \* its outcome (<<>> before it ran)
    facets,      \* input of the facet clause when run on its own
    facetExp,    \* its outcome (<<>> before it ran)
    search,      \* input of the response body when built on its own
    response     \* its outcome (<<>> before it was built)

vars == <<pc, req, searchExp, dbCalls, result, resCalls, thrown, caught, unhandled, running,
          rule, compiled, facets, facetExp, search, response>>

handlerVars ==
    <<pc, req, searchExp, dbCalls, result, resCalls, thrown, caught, unhandled, running>>
compilerVars == <<rule, compiled>>
facetVars == <<facets, facetExp>>
bodyVars == <<search, response>>

----------------------------------------------------------------------------
(* Bounds of the model.                                                    *)

MaxNodes == 6
MaxGroups == 2
MaxMembers == 2
MaxHits == 4
MaxPage == 2
MaxHitsPerPage == 3
MaxInFlight == 2

(* Program constants.                                                      *)

DefaultHitsPerPage == 20
ErrorStatus == 400
BodyStatus == 500

----------------------------------------------------------------------------
(* JavaScript primitives used by the code.                                 *)

Undefined == <<>>
Some(v) == <<v>>

RECURSIVE Join(_, _)
Join(arr, sep) ==
    IF Len(arr) = 0 THEN ""
    ELSE IF Len(arr) = 1 THEN arr[1]
    ELSE arr[1] \o sep \o Join(Tail(arr), sep)

Digits == <<"0", "1", "2", "3", "4", "5", "6", "7", "8", "9">>

DigitValue(c) == CHOOSE d \in 0..9 : Digits[d + 1] = c

RECURSIVE IsNumeric(_)
IsNumeric(w) ==
    IF Len(w) = 0 THEN TRUE
    ELSE /\ \E d \in 0..9 : Digits[d + 1] = SubSeq(w, 1, 1)
         /\ IsNumeric(SubSeq(w, 2, Len(w)))

RECURSIVE ToNumber(_)
ToNumber(w) ==
    IF Len(w) = 0 THEN 0
    ELSE 10 * ToNumber(SubSeq(w, 1, Len(w) - 1)) + DigitValue(SubSeq(w, Len(w), Len(w)))

(* String(v) of a literal: a number prints in decimal, a string is itself. *)
String(lit) == IF lit.type = "number" THEN ToString(lit.num) ELSE lit.str

----------------------------------------------------------------------------
(* Index expressions: the combinators of the index (db.AND, db.OR,         *)
(* db.NOT), which only record the shape of the expression.                 *)

Term(s) == [op |-> "TERM", term |-> s]
AND(a, b) == [op |-> "AND", args |-> <<a, b>>]
OR(a, b) == [op |-> "OR", args |-> <<a, b>>]
NOT(a, b) == [op |-> "NOT", args |-> <<a, b>>]

Return(e) == [ok |-> TRUE, exp |-> e]
Throw(name, message) == [ok |-> FALSE, error |-> [name |-> name, message |-> message]]

----------------------------------------------------------------------------
(* AST nodes, as the parser builds them.                                   *)

Match(key, lit) == [token |-> "MATCH", key |-> key, value |-> [value |-> lit]]
And(l, r) == [token |-> "AND", left |-> l, right |-> r]
Or(l, r) == [token |-> "OR", left |-> l, right |-> r]
Not(operand) == [token |-> "NOT", value |-> operand]

StringLit(s) == [type |-> "string", str |-> s]
NumberLit(n) == [type |-> "number", num |-> n]

(* node.token, undefined when the object has no such field.                *)
TokenOf(node) == IF "token" \in DOMAIN node THEN node.token ELSE "undefined"

----------------------------------------------------------------------------
(* buildSearchExpression, src/src/parseAlgoliaSQL.js.                      *)

(* Line 7 with key and value exchanged: C7_PositiveShape tells them apart. *)
MatchTermSwapped(key, value) == String(value.value) \o ":" \o key

(* line 7 *)
MatchTerm(key, value) == key \o ":" \o String(value.value)

(* Line 17 without its test: C3_NotCompilation tells them apart.          *)
IsMatchAlways(value) == TRUE

(* line 17 *)
IsMatch(value) == TokenOf(value) = "MATCH"

RECURSIVE buildSearchExpression(_)
buildSearchExpression(r) ==
    LET token == TokenOf(r) IN
    IF token = "MATCH" THEN
        Return(Term(MatchTerm(r.key, r.value)))
    ELSE IF token = "OR" THEN
        LET leftExpression == buildSearchExpression(r.left) IN
        IF ~leftExpression.ok THEN leftExpression
        ELSE LET rightExpression == buildSearchExpression(r.right) IN
             IF ~rightExpression.ok THEN rightExpression
             ELSE Return(OR(leftExpression.exp, rightExpression.exp))
    ELSE IF token = "AND" THEN
        LET leftExpression == buildSearchExpression(r.left) IN
        IF ~leftExpression.ok THEN leftExpression
        ELSE LET rightExpression == buildSearchExpression(r.right) IN
             IF ~rightExpression.ok THEN rightExpression
             ELSE Return(AND(leftExpression.exp, rightExpression.exp))
    ELSE IF token = "NOT" THEN
        IF IsMatch(r.value) THEN
            LET expression == buildSearchExpression(r.value) IN
            IF ~expression.ok THEN expression
            ELSE Return(NOT(Term("*"), expression.exp))
        ELSE Throw("Error", "NOT only supports MATCH")
    ELSE Throw("Error", "UNKNOWN TOKEN")

----------------------------------------------------------------------------
(* The compiler run on its own, on every AST of at most MaxNodes nodes,    *)
(* nodes with a tag the compiler does not know included.                   *)

Unknown == [token |-> "RANGE", key |-> "a", value |-> [value |-> NumberLit(1)]]

Leaves == { Match("a", StringLit("x")), Match("b", NumberLit(1)), Unknown }

RECURSIVE TreesOfSize(_)
TreesOfSize(n) ==
    IF n = 1 THEN Leaves
    ELSE { Not(t) : t \in TreesOfSize(n - 1) }
         \cup UNION { { And(l, r) : l \in TreesOfSize(k), r \in TreesOfSize(n - 1 - k) }
                      : k \in 1..(n - 2) }
         \cup UNION { { Or(l, r) : l \in TreesOfSize(k), r \in TreesOfSize(n - 1 - k) }
                      : k \in 1..(n - 2) }

Trees == UNION { TreesOfSize(n) : n \in 1..MaxNodes }

Compile ==
    /\ compiled = <<>>
    /\ compiled' = <<buildSearchExpression(rule)>>
    /\ UNCHANGED rule

----------------------------------------------------------------------------
(* The filter grammar (algoliaDSLParser, generated from a grammar that is  *)
(* not among the sources): key:value matches combined with AND, OR, NOT    *)
(* and parentheses; AND binds tighter than OR, both associate to the left, *)
(* NOT is a prefix operator, white space separates tokens.                 *)

RECURSIVE WordLen(_)
WordLen(s) ==
    IF Len(s) = 0 THEN 0
    ELSE IF SubSeq(s, 1, 1) \in {"(", ")", ":", " "} THEN 0
    ELSE 1 + WordLen(SubSeq(s, 2, Len(s)))

RECURSIVE Lex(_)
Lex(s) ==
    IF Len(s) = 0 THEN <<>>
    ELSE LET c == SubSeq(s, 1, 1) IN
         IF c = " " THEN Lex(SubSeq(s, 2, Len(s)))
         ELSE IF c \in {"(", ")", ":"}
              THEN <<[t |-> c, text |-> c]>> \o Lex(SubSeq(s, 2, Len(s)))
         ELSE LET n == WordLen(s) IN
              <<[t |-> "WORD", text |-> SubSeq(s, 1, n)]>> \o Lex(SubSeq(s, n + 1, Len(s)))

IsWord(toks, i) == Len(toks) >= i /\ toks[i].t = "WORD" /\ toks[i].text \notin {"AND", "OR", "NOT"}
IsKeyword(toks, i, kw) == Len(toks) >= i /\ toks[i].t = "WORD" /\ toks[i].text = kw
IsPunct(toks, i, p) == Len(toks) >= i /\ toks[i].t = p

Literal(w) == IF IsNumeric(w) THEN NumberLit(ToNumber(w)) ELSE StringLit(w)

Parsed(node, rest) == [ok |-> TRUE, node |-> node, rest |-> rest]
NoParse == [ok |-> FALSE]

RECURSIVE ParseOr(_), ParseOrTail(_, _), ParseAnd(_), ParseAndTail(_, _),
          ParseUnary(_), ParsePrimary(_)

CloseParen(inner) ==
    IF inner.ok /\ IsPunct(inner.rest, 1, ")")
    THEN Parsed(inner.node, Tail(inner.rest))
    ELSE NoParse

ParsePrimary(toks) ==
    IF IsPunct(toks, 1, "(") THEN CloseParen(ParseOr(Tail(toks)))
    ELSE IF IsWord(toks, 1) /\ IsPunct(toks, 2, ":") /\ IsWord(toks, 3)
         THEN Parsed(Match(toks[1].text, Literal(toks[3].text)), SubSeq(toks, 4, Len(toks)))
    ELSE NoParse

Negated(operand) ==
    IF operand.ok THEN Parsed(Not(operand.node), operand.rest) ELSE NoParse

ParseUnary(toks) ==
    IF IsKeyword(toks, 1, "NOT") THEN Negated(ParseUnary(Tail(toks)))
    ELSE ParsePrimary(toks)

AndRight(left, right) ==
    IF right.ok THEN ParseAndTail(And(left, right.node), right.rest) ELSE NoParse

ParseAndTail(left, toks) ==
    IF IsKeyword(toks, 1, "AND") THEN AndRight(left, ParseUnary(Tail(toks)))
    ELSE Parsed(left, toks)

AndLeft(left) ==
    IF left.ok THEN ParseAndTail(left.node, left.rest) ELSE NoParse

ParseAnd(toks) == AndLeft(ParseUnary(toks))

OrRight(left, right) ==
    IF right.ok THEN ParseOrTail(Or(left, right.node), right.rest) ELSE NoParse

ParseOrTail(left, toks) ==
    IF IsKeyword(toks, 1, "OR") THEN OrRight(left, ParseAnd(Tail(toks)))
    ELSE Parsed(left, toks)

OrLeft(left) ==
    IF left.ok THEN ParseOrTail(left.node, left.rest) ELSE NoParse

ParseOr(toks) == OrLeft(ParseAnd(toks))

WholeInput(r) ==
    IF r.ok /\ r.rest = <<>> THEN [ok |-> TRUE, ast |-> r.node]
    ELSE Throw("SyntaxError", "Expected filter")

(* parser.parse(sql): the AST, or a SyntaxError.                           *)
parse(sql) == WholeInput(ParseOr(Lex(sql)))

(* module.exports of src/src/parseAlgoliaSQL.js: a SyntaxError of the      *)
(* parser propagates, otherwise the AST is compiled.                       *)
CompileParsed(ast) == IF ~ast.ok THEN ast ELSE buildSearchExpression(ast.ast)

parseAlgoliaSQL(sql) == CompileParsed(parse(sql))

----------------------------------------------------------------------------
(* The facetFilters clause of the query route, src/index.js line 110. An   *)
(* element of facetFilters is a string, [array |-> FALSE, str |-> s], or   *)
(* an array of strings, [array |-> TRUE, items |-> <<s1, ...>>].           *)

Bare(s) == [array |-> FALSE, str |-> s]
Group(items) == [array |-> TRUE, items |-> items]

(* Line 110 without the parentheses around an array: C5_FacetClause       *)
(* tells them apart.                                                       *)
FacetElementNoParens(f) == IF f.array THEN Join(f.items, " OR ") ELSE f.str

FacetElement(f) == IF f.array THEN "(" \o Join(f.items, " OR ") \o ")" ELSE f.str

FacetClause(facetFilters) ==
    parseAlgoliaSQL(Join([i \in 1..Len(facetFilters) |-> FacetElement(facetFilters[i])],
                         " AND "))

(* The clause built on its own, on every list of at most MaxGroups         *)
(* elements, each a string or an array of at most MaxMembers strings.      *)

SeqsUpTo(S, n) == UNION { [1..k -> S] : k \in 0..n }

FacetElements ==
    { Bare(s) : s \in {"a:1", "a:2", "b:3"} }
    \cup { Group(items) : items \in SeqsUpTo({"a:1", "a:2", "b:3"}, MaxMembers) \ {<<>>} }

FacetLists == SeqsUpTo(FacetElements, MaxGroups)

BuildFacet ==
    /\ facetExp = <<>>
    /\ facetExp' = <<FacetClause(facets)>>
    /\ UNCHANGED facets

----------------------------------------------------------------------------
(* Array.prototype.sort with the comparators of the server. Neither        *)
(* comparator ever returns 0, so neither is a consistent comparator and    *)
(* the order of the result is the engine's. The engine modelled is V8      *)
(* (Node.js 11 and later), whose sort is TimSort: the array is cut into    *)
(* runs, a run shorter than the minimal run length is extended by binary   *)
(* insertion, and the runs are merged, galloping when one run wins seven   *)
(* times in a row. An array shorter than 64 elements is a single run.      *)
(* Only the sign of a comparison is used. Positions are counted from 0, as *)
(* in the engine; position p of an array a is a[p + 1].                    *)

(* lines 124-131, sortAttribute being price: item2Attr >= item1Attr and    *)
(* item2Attr <= item1Attr are false when either side is undefined.         *)
comparefn(item1, item2, sortDesc) ==
    LET item1Attr == item1.price
        item2Attr == item2.price
        defined == item1Attr # Undefined /\ item2Attr # Undefined
    IN IF sortDesc
       THEN IF defined /\ item2Attr[1] >= item1Attr[1] THEN 1 ELSE -1
       ELSE IF defined /\ item2Attr[1] <= item1Attr[1] THEN 1 ELSE -1

(* line 71: a.featuredScore > b.featuredScore is false when either side is *)
(* undefined.                                                              *)
byFeaturedScore(a, b) ==
    IF /\ a.featuredScore # Undefined
       /\ b.featuredScore # Undefined
       /\ a.featuredScore[1] > b.featuredScore[1]
    THEN -1 ELSE 1

(* The comparator handed to sort: that of the query route, ascending or    *)
(* descending, or that of the recommendations route.                       *)
Compare(order, x, y) ==
    CASE order = "ascending" -> comparefn(x, y, FALSE)
      [] order = "descending" -> comparefn(x, y, TRUE)
      [] order = "featuredScore" -> byFeaturedScore(x, y)

(* The minimal length of a run: n itself below 64, else the leading six    *)
(* bits of n, plus one if any of the other bits is set.                    *)
RECURSIVE ComputeMinRunLength(_, _)
ComputeMinRunLength(n, r) ==
    IF n >= 64 THEN ComputeMinRunLength(n \div 2, IF n % 2 = 1 THEN 1 ELSE r)
    ELSE n + r

RECURSIVE RunEnd(_, _, _, _)
RunEnd(a, idx, isDescending, order) ==
    IF idx > Len(a) THEN idx - 1
    ELSE LET sign == Compare(order, a[idx], a[idx - 1]) IN
         IF (isDescending /\ sign >= 0) \/ (~isDescending /\ sign < 0)
         THEN idx - 1
         ELSE RunEnd(a, idx + 1, isDescending, order)

(* The array with its leading run made ascending, and the run's length.    *)
CountAndMakeRun(a, order) ==
    IF Len(a) < 2 THEN [array |-> a, runLength |-> Len(a)]
    ELSE LET isDescending == Compare(order, a[2], a[1]) < 0
             runLength == RunEnd(a, 3, isDescending, order)
         IN [array |-> IF isDescending
                       THEN [i \in 1..runLength |-> a[runLength + 1 - i]]
                            \o SubSeq(a, runLength + 1, Len(a))
                       ELSE a,
             runLength |-> runLength]

(* The element lies before the place of key: left of the leftmost place    *)
(* key may take (element < key), or of the rightmost (not key < element).  *)
Before(order, element, key, rightmost) ==
    IF rightmost THEN ~(Compare(order, key, element) < 0)
    ELSE Compare(order, element, key) < 0

(* The place of key among a[base + lo .. base + hi - 1], by bisection.     *)
RECURSIVE Bisect(_, _, _, _, _, _, _)
Bisect(a, key, base, lo, hi, rightmost, order) ==
    IF lo >= hi THEN hi
    ELSE LET m == lo + ((hi - lo) \div 2) IN
         IF Before(order, a[base + m + 1], key, rightmost)
         THEN Bisect(a, key, base, m + 1, hi, rightmost, order)
         ELSE Bisect(a, key, base, lo, m, rightmost, order)

RECURSIVE BinaryInsertionSort(_, _, _)
BinaryInsertionSort(a, start, order) ==
    IF start >= Len(a) THEN a
    ELSE LET pivot == a[start + 1]
             left == Bisect(a, pivot, 0, 0, start, TRUE, order)
             moved == SubSeq(a, 1, left) \o <<pivot>> \o SubSeq(a, left + 1, start)
                      \o SubSeq(a, start + 2, Len(a))
         IN BinaryInsertionSort(moved, start + 1, order)

(* The offsets from position from, in direction dir, between which the     *)
(* place of key lies: 1, 3, 7, ... up to maxOfs.                           *)
RECURSIVE GallopOffsets(_, _, _, _, _, _, _, _, _)
GallopOffsets(a, key, from, dir, lastOfs, offset, maxOfs, rightmost, order) ==
    IF /\ offset < maxOfs
       /\ Before(order, a[from + dir * offset + 1], key, rightmost) <=> (dir = 1)
    THEN GallopOffsets(a, key, from, dir, offset, 2 * offset + 1, maxOfs, rightmost, order)
    ELSE [lastOfs |-> lastOfs, offset |-> IF offset > maxOfs THEN maxOfs ELSE offset]

(* GallopLeft (rightmost = FALSE) and GallopRight (rightmost = TRUE): the  *)
(* place of key in the run a[base .. base + length - 1], searched from     *)
(* position hint of the run.                                               *)
Gallop(a, key, base, length, hint, rightmost, order) ==
    LET toTheRight == Before(order, a[base + hint + 1], key, rightmost)
        g == IF toTheRight
             THEN GallopOffsets(a, key, base + hint, 1, 0, 1, length - hint, rightmost, order)
             ELSE GallopOffsets(a, key, base + hint, -1, 0, 1, hint + 1, rightmost, order)
        lastOfs == IF toTheRight THEN g.lastOfs + hint ELSE hint - g.offset
        offset == IF toTheRight THEN g.offset + hint ELSE hint - g.lastOfs
    IN Bisect(a, key, base, lastOfs + 1, offset, rightmost, order)

(* dst with length elements of src, from srcPos on, written from dstPos on *)
Copy(src, srcPos, dst, dstPos, length) ==
    [i \in 1..Len(dst) |->
        IF dstPos < i /\ i <= dstPos + length THEN src[i - dstPos + srcPos] ELSE dst[i]]

(* MergeLow: run A, copied to temp, and run B, which follows it in work,   *)
(* are merged from the left. m holds the variables of the merge and the    *)
(* place it has come to: its start, the one-by-one merge, the galloping    *)
(* merge (its loop test, the elements won by A, those won by B) and the    *)
(* two ends.                                                               *)
RECURSIVE MergeLow(_, _)
MergeLow(m, order) ==
    LET fromB(x, n) ==
            [x EXCEPT !.work = Copy(x.work, x.cursor, x.work, x.dest, n),
                      !.dest = @ + n, !.cursor = @ + n, !.lengthB = @ - n]
        fromTemp(x, n) ==
            [x EXCEPT !.work = Copy(x.temp, x.cursorTemp, x.work, x.dest, n),
                      !.dest = @ + n, !.cursorTemp = @ + n, !.lengthA = @ - n]
    IN
    CASE m.label = "Succeed" ->
           [array |-> IF m.lengthA > 0
                      THEN Copy(m.temp, m.cursorTemp, m.work, m.dest, m.lengthA)
                      ELSE m.work,
            minGallop |-> m.minGallop]
      [] m.label = "CopyB" ->
           [array |-> [Copy(m.work, m.cursor, m.work, m.dest, m.lengthB)
                          EXCEPT ![m.dest + m.lengthB + 1] = m.temp[m.cursorTemp + 1]],
            minGallop |-> m.minGallop]
      [] m.label = "start" ->
           MergeLow([fromB(m, 1) EXCEPT
                        !.label = IF m.lengthB = 1 THEN "Succeed"
                                  ELSE IF m.lengthA = 1 THEN "CopyB" ELSE "oneByOne"],
                    order)
      [] m.label = "oneByOne" ->
           IF Compare(order, m.work[m.cursor + 1], m.temp[m.cursorTemp + 1]) < 0
           THEN MergeLow([fromB(m, 1) EXCEPT
                             !.nofWinsB = @ + 1, !.nofWinsA = 0, !.first = TRUE,
                             !.label = IF m.lengthB = 1 THEN "Succeed"
                                       ELSE IF m.nofWinsB + 1 >= m.minGallop
                                       THEN "galloping" ELSE "oneByOne"],
                         order)
           ELSE MergeLow([fromTemp(m, 1) EXCEPT
                             !.nofWinsA = @ + 1, !.nofWinsB = 0, !.first = TRUE,
                             !.label = IF m.lengthA = 2 THEN "CopyB"
                                       ELSE IF m.nofWinsA + 1 >= m.minGallop
                                       THEN "galloping" ELSE "oneByOne"],
                         order)
      [] m.label = "galloping" ->
           IF m.nofWinsA >= 7 \/ m.nofWinsB >= 7 \/ m.first
           THEN MergeLow([m EXCEPT
                             !.label = "wonByA", !.first = FALSE,
                             !.minGallop = IF m.first \/ @ = 1 THEN @ ELSE @ - 1,
                             !.nofWinsA = Gallop(m.temp, m.work[m.cursor + 1],
                                                 m.cursorTemp, m.lengthA, 0, TRUE, order)],
                         order)
           ELSE MergeLow([m EXCEPT !.label = "oneByOne", !.minGallop = @ + 1,
                                   !.nofWinsA = 0, !.nofWinsB = 0],
                         order)
      [] m.label = "wonByA" ->
           IF m.nofWinsA > 0 /\ m.lengthA - m.nofWinsA <= 1
           THEN MergeLow([fromTemp(m, m.nofWinsA) EXCEPT
                             !.label = IF m.lengthA - m.nofWinsA = 1
                                       THEN "CopyB" ELSE "Succeed"],
                         order)
           ELSE IF m.lengthB = 1
           THEN MergeLow([fromB(fromTemp(m, m.nofWinsA), 1) EXCEPT !.label = "Succeed"],
                         order)
           ELSE MergeLow([fromB(fromTemp(m, m.nofWinsA), 1) EXCEPT !.label = "nextOfB"],
                         order)
      [] m.label = "nextOfB" ->
           MergeLow([m EXCEPT !.label = "wonByB",
                              !.nofWinsB = Gallop(m.work, m.temp[m.cursorTemp + 1],
                                                  m.cursor, m.lengthB, 0, FALSE, order)],
                    order)
      [] m.label = "wonByB" ->
           IF m.nofWinsB > 0 /\ m.lengthB - m.nofWinsB = 0
           THEN MergeLow([fromB(m, m.nofWinsB) EXCEPT !.label = "Succeed"], order)
           ELSE MergeLow([fromTemp(fromB(m, m.nofWinsB), 1) EXCEPT
                             !.label = IF m.lengthA = 2 THEN "CopyB" ELSE "galloping"],
                         order)

(* MergeHigh: run A, and run B copied to temp, are merged from the right.  *)
RECURSIVE MergeHigh(_, _)
MergeHigh(m, order) ==
    LET fromA(x, n) ==
            [x EXCEPT !.work = Copy(x.work, x.cursor - n + 1, x.work, x.dest - n + 1, n),
                      !.dest = @ - n, !.cursor = @ - n, !.lengthA = @ - n]
        fromTemp(x, n) ==
            [x EXCEPT !.work = Copy(x.temp, x.cursorTemp - n + 1, x.work, x.dest - n + 1, n),
                      !.dest = @ - n, !.cursorTemp = @ - n, !.lengthB = @ - n]
    IN
    CASE m.label = "Succeed" ->
           [array |-> IF m.lengthB > 0
                      THEN Copy(m.temp, 0, m.work, m.dest - (m.lengthB - 1), m.lengthB)
                      ELSE m.work,
            minGallop |-> m.minGallop]
      [] m.label = "CopyA" ->
           [array |-> [Copy(m.work, m.cursor - m.lengthA + 1, m.work,
                            m.dest - m.lengthA + 1, m.lengthA)
                          EXCEPT ![m.dest - m.lengthA + 1] = m.temp[m.cursorTemp + 1]],
            minGallop |-> m.minGallop]
      [] m.label = "start" ->
           MergeHigh([fromA(m, 1) EXCEPT
                         !.label = IF m.lengthA = 1 THEN "Succeed"
                                   ELSE IF m.lengthB = 1 THEN "CopyA" ELSE "oneByOne"],
                     order)
      [] m.label = "oneByOne" ->
           IF Compare(order, m.temp[m.cursorTemp + 1], m.work[m.cursor + 1]) < 0
           THEN MergeHigh([fromA(m, 1) EXCEPT
                              !.nofWinsA = @ + 1, !.nofWinsB = 0, !.first = TRUE,
                              !.label = IF m.lengthA = 1 THEN "Succeed"
                                        ELSE IF m.nofWinsA + 1 >= m.minGallop
                                        THEN "galloping" ELSE "oneByOne"],
                          order)
           ELSE MergeHigh([fromTemp(m, 1) EXCEPT
                              !.nofWinsB = @ + 1, !.nofWinsA = 0, !.first = TRUE,
                              !.label = IF m.lengthB = 2 THEN "CopyA"
                                        ELSE IF m.nofWinsB + 1 >= m.minGallop
                                        THEN "galloping" ELSE "oneByOne"],
                          order)
      [] m.label = "galloping" ->
           IF m.nofWinsA >= 7 \/ m.nofWinsB >= 7 \/ m.first
           THEN MergeHigh([m EXCEPT
                              !.label = "wonByA", !.first = FALSE,
                              !.minGallop = IF m.first \/ @ = 1 THEN @ ELSE @ - 1,
                              !.nofWinsA = m.lengthA
                                           - Gallop(m.work, m.temp[m.cursorTemp + 1], m.base,
                                                    m.lengthA, m.lengthA - 1, TRUE, order)],
                          order)
           ELSE MergeHigh([m EXCEPT !.label = "oneByOne", !.minGallop = @ + 1,
                                    !.nofWinsA = 0, !.nofWinsB = 0],
                          order)
      [] m.label = "wonByA" ->
           IF m.nofWinsA > 0 /\ m.lengthA - m.nofWinsA = 0
           THEN MergeHigh([fromA(m, m.nofWinsA) EXCEPT !.label = "Succeed"], order)
           ELSE IF m.lengthB = 2
           THEN MergeHigh([fromTemp(fromA(m, m.nofWinsA), 1) EXCEPT !.label = "CopyA"],
                          order)
           ELSE MergeHigh([fromTemp(fromA(m, m.nofWinsA), 1) EXCEPT !.label = "nextOfA"],
                          order)
      [] m.label = "nextOfA" ->
           MergeHigh([m EXCEPT !.label = "wonByB",
                               !.nofWinsB = m.lengthB
                                            - Gallop(m.temp, m.work[m.cursor + 1], 0,
                                                     m.lengthB, m.lengthB - 1, FALSE, order)],
                     order)
      [] m.label = "wonByB" ->
           IF m.nofWinsB > 0 /\ m.lengthB - m.nofWinsB <= 1
           THEN MergeHigh([fromTemp(m, m.nofWinsB) EXCEPT
                              !.label = IF m.lengthB - m.nofWinsB = 1
                                        THEN "CopyA" ELSE "Succeed"],
                          order)
           ELSE MergeHigh([fromA(fromTemp(m, m.nofWinsB), 1) EXCEPT
                              !.label = IF m.lengthA = 1 THEN "Succeed" ELSE "galloping"],
                          order)

(* The runs at positions i and i + 1 of the stack of pending runs are      *)
(* merged, in three steps: where B starts in A (the elements of A before   *)
(* that are in place), where A ends in B (the elements of B after that are *)
(* in place), and the merge of what remains, the shorter run being the one *)
(* copied to temp. t holds the step and what the steps before it found.    *)
RECURSIVE MergeAt(_, _, _, _)
MergeAt(st, i, t, order) ==
    LET a == st.runs[i + 1]
        b == st.runs[i + 2]
        runs == SubSeq(st.runs, 1, i)
                \o <<[base |-> a.base, length |-> a.length + b.length]>>
                \o SubSeq(st.runs, i + 3, Len(st.runs))
        m == [label |-> "start", work |-> st.array, lengthA |-> a.length - t.k,
              lengthB |-> t.lengthB, base |-> a.base + t.k, minGallop |-> st.minGallop,
              nofWinsA |-> 0, nofWinsB |-> 0, first |-> FALSE]
    IN
    CASE t.label = "whereBStartsInA" ->
           MergeAt(st, i,
                   [label |-> "whereAEndsInB", lengthB |-> b.length,
                    k |-> Gallop(st.array, st.array[b.base + 1], a.base, a.length, 0,
                                 TRUE, order)],
                   order)
      [] t.label = "whereAEndsInB" ->
           IF a.length - t.k = 0 THEN [st EXCEPT !.runs = runs]
           ELSE MergeAt(st, i,
                        [label |-> "merge", k |-> t.k,
                         lengthB |-> Gallop(st.array, st.array[a.base + a.length],
                                            b.base, b.length, b.length - 1, FALSE, order)],
                        order)
      [] t.label = "merge" ->
           IF t.lengthB = 0 THEN [st EXCEPT !.runs = runs]
           ELSE IF a.length - t.k <= t.lengthB
           THEN [runs |-> runs]
                @@ MergeLow(m @@ [temp |-> SubSeq(st.array, a.base + t.k + 1,
                                                  a.base + a.length),
                                  dest |-> a.base + t.k, cursorTemp |-> 0,
                                  cursor |-> b.base],
                            order)
           ELSE [runs |-> runs]
                @@ MergeHigh(m @@ [temp |-> SubSeq(st.array, b.base + 1,
                                                   b.base + t.lengthB),
                                   dest |-> b.base + t.lengthB - 1,
                                   cursorTemp |-> t.lengthB - 1,
                                   cursor |-> a.base + a.length - 1],
                             order)

(* MergeCollapse, and MergeForceCollapse (force): pending runs are merged  *)
(* until each is longer than the two above it together and than the one    *)
(* above it, or, when forced, until one run is left.                       *)
RECURSIVE MergeCollapse(_, _, _)
MergeCollapse(st, force, order) ==
    LET length(j) == st.runs[j + 1].length
        n == Len(st.runs) - 2
        established(j) == j < 2 \/ length(j - 2) > length(j - 1) + length(j)
        unbalanced == force \/ ~established(n + 1) \/ ~established(n)
    IN IF Len(st.runs) <= 1 \/ ~(unbalanced \/ length(n) <= length(n + 1)) THEN st
       ELSE MergeCollapse(MergeAt(st,
                                  IF unbalanced /\ n > 0 /\ length(n - 1) < length(n + 1)
                                  THEN n - 1 ELSE n,
                                  [label |-> "whereBStartsInA"], order),
                          force, order)

(* The array from position low on is cut into runs, each pushed on the     *)
(* stack of pending runs and merged with those below it as far as the      *)
(* lengths of the runs ask for.                                            *)
RECURSIVE ArrayTimSortImpl(_, _, _, _)
ArrayTimSortImpl(st, low, minRunLength, order) ==
    LET remaining == Len(st.array) - low
        run == CountAndMakeRun(SubSeq(st.array, low + 1, Len(st.array)), order)
        short == run.runLength < minRunLength
        forcedRunLength == IF minRunLength < remaining THEN minRunLength ELSE remaining
        currentRunLength == IF short THEN forcedRunLength ELSE run.runLength
        made == IF short
                THEN BinaryInsertionSort(SubSeq(run.array, 1, forcedRunLength),
                                         run.runLength, order)
                     \o SubSeq(run.array, forcedRunLength + 1, remaining)
                ELSE run.array
    IN IF remaining = 0 THEN st
       ELSE ArrayTimSortImpl(
                MergeCollapse([st EXCEPT !.array = SubSeq(st.array, 1, low) \o made,
                                         !.runs = Append(@, [base |-> low,
                                                             length |-> currentRunLength])],
                              FALSE, order),
                low + currentRunLength, minRunLength, order)

(* What is left on the stack when the array is cut is merged.              *)
Sort(a, order) ==
    IF Len(a) < 2 THEN a
    ELSE MergeCollapse(ArrayTimSortImpl([array |-> a, minGallop |-> 7, runs |-> <<>>], 0,
                                        ComputeMinRunLength(Len(a), 0), order),
                       TRUE, order).array

----------------------------------------------------------------------------
(* What the index holds and resolves with. An element of a search result   *)
(* carries the record under obj and its identifier under _id as well.      *)

Item(id, price, featuredScore) ==
    [_id |-> id,
     obj |-> [_id |-> id, name |-> "n", price |-> price, featuredScore |-> featuredScore]]

Ids(res) == [i \in 1..Len(res) |-> res[i]._id]

----------------------------------------------------------------------------
(* The response body of the query route, lines 114-145. With the           *)
(* parameters read from the params query string, page and hitsPerPage are  *)
(* strings: * and / convert them to numbers, + concatenates. The echoed    *)
(* params string is left out of the body.                                  *)

(* The digits of from followed by as many zeros as n has digits.          *)
RECURSIVE Shifted(_, _)
Shifted(from, n) == IF n < 10 THEN from * 10 ELSE Shifted(from * 10, n \div 10)

(* from + hitsPerPage: the digits of the two, one after the other, when    *)
(* hitsPerPage is a string.                                                *)
Plus(from, hitsPerPage, isString) ==
    IF isString THEN Shifted(from, hitsPerPage) + hitsPerPage
    ELSE from + hitsPerPage

(* Line 115 with Math.floor: C9_PageCount tells them apart.                *)
CeilFloor(nbHits, hitsPerPage) == nbHits \div hitsPerPage

(* Math.ceil(nbHits / hitsPerPage)                                         *)
Ceil(nbHits, hitsPerPage) ==
    IF nbHits % hitsPerPage = 0 THEN nbHits \div hitsPerPage
    ELSE (nbHits \div hitsPerPage) + 1

Min(a, b) == IF a < b THEN a ELSE b
Max(a, b) == IF a > b THEN a ELSE b

(* Array.prototype.slice(from, end)                                        *)
Slice(a, from, end) ==
    LET len == Len(a)
        k == IF from < 0 THEN Max(len + from, 0) ELSE Min(from, len)
        final == IF end < 0 THEN Max(len + end, 0) ELSE Min(end, len)
    IN SubSeq(a, k + 1, final)

(* result.map(...): the record with _id renamed to objectID.               *)
ToHit(item) ==
    [objectID |-> item.obj._id, name |-> item.obj.name, price |-> item.obj.price,
     featuredScore |-> item.obj.featuredScore]

Hits(raw) == [i \in 1..Len(raw) |-> ToHit(raw[i])]

SortedHits(raw, sortAttribute, sortDesc) ==
    IF sortAttribute
    THEN Sort(Hits(raw), IF sortDesc THEN "descending" ELSE "ascending")
    ELSE Hits(raw)

QueryBody(r, raw) ==
    LET isString == r.viaParams /\ r.hitsPerPage # Undefined
        page == r.page
        hitsPerPage == IF r.hitsPerPage = Undefined THEN DefaultHitsPerPage
                       ELSE r.hitsPerPage[1]
        nbHits == Len(raw)
        nbPages == Ceil(nbHits, hitsPerPage)
        hits == SortedHits(raw, r.sortAttribute, r.sortDesc)
        from == page * hitsPerPage
        end == Plus(from, hitsPerPage, isString) - 1
    IN [hits |-> Slice(hits, from, end),
        query |-> IF r.query = Undefined THEN "" ELSE r.query[1],
        page |-> page,
        nbHits |-> nbHits,
        nbPages |-> nbPages,
        hitsPerPage |-> hitsPerPage]

(* The body built on its own, on every page of every result of at most     *)
(* MaxHits records.                                                        *)

Results ==
    UNION { { [i \in 1..n |-> Item(i, ps[i], Undefined)]
              : ps \in [1..n -> {Undefined, Some(1), Some(2)}] }
            : n \in 0..MaxHits }

PagedRequests ==
    { r \in [route : {"query"},
             viaParams : BOOLEAN,
             query : {Some("shoes")},
             filters : {Undefined},
             facetFilters : {Undefined},
             page : 0..MaxPage,
             hitsPerPage : {Undefined} \cup { Some(h) : h \in 1..MaxHitsPerPage },
             sortAttribute : BOOLEAN,
             sortDesc : BOOLEAN] :
        r.sortDesc => r.sortAttribute }

BuildBody ==
    /\ response = <<>>
    /\ response' = <<QueryBody(search.req, search.result)>>
    /\ UNCHANGED search

----------------------------------------------------------------------------
(* The recommendations of one request, lines 64-85.                        *)

(* lines 64-70 *)
Objects(content, objectID) ==
    SelectSeq([i \in 1..Len(content) |->
                  [_id |-> content[i].obj._id, name |-> content[i].obj.name,
                   featuredScore |-> content[i].obj.featuredScore]],
              LAMBDA object : object._id # objectID)

Recommended(request, content) ==
    LET objects == Sort(Objects(content, request.objectID), "featuredScore")
        maxRecommendations == request.maxRecommendations
        numRecommendations ==
            IF maxRecommendations # Undefined /\ maxRecommendations[1] > 0
            THEN Min(maxRecommendations[1], Len(objects))
            ELSE Len(objects)
    IN [hits |-> [i \in 1..numRecommendations |->
                    [_score |-> objects[i].featuredScore, objectID |-> objects[i]._id,
                     name |-> objects[i].name]]]

----------------------------------------------------------------------------
(* Responses. res.json throws once the headers are sent                    *)
(* (ERR_HTTP_HEADERS_SENT); res.end does not. A call is recorded with      *)
(* whether it delivered a response.                                        *)

HeadersSent(calls) == \E i \in 1..Len(calls) : calls[i].delivered

Json(calls, status, body) ==
    Append(calls, [method |-> "json", status |-> status, body |-> <<body>>,
                   delivered |-> ~HeadersSent(calls)])

End(calls, status) ==
    Append(calls, [method |-> "end", status |-> status, body |-> <<>>,
                   delivered |-> ~HeadersSent(calls)])

HeadersSentError ==
    [name |-> "Error", message |-> "Cannot set headers after they are sent to the client"]

InternalServerError == [message |-> "Internal server error", status |-> BodyStatus]

(* The catch answering with HTTP status 500: C4_GenericFailure tells them  *)
(* apart.                                                                  *)
wrapAsyncMiddlewareAs500(calls, error) ==
    [resCalls |-> Json(calls, BodyStatus, InternalServerError),
     caught |-> <<error>>,
     unhandled |-> HeadersSent(calls)]

(* The catch of wrapAsyncMiddleware, lines 12-18, for a handler whose      *)
(* promise rejected with error after the calls it made on res. When its    *)
(* own res.json throws, the promise it returns rejects and nothing handles *)
(* it.                                                                     *)
wrapAsyncMiddleware(calls, error) ==
    [resCalls |-> Json(calls, ErrorStatus, InternalServerError),
     caught |-> <<error>>,
     unhandled |-> HeadersSent(calls)]

----------------------------------------------------------------------------
(* The clauses of the query route, lines 100-111.                          *)

(* Lines 101-103 pushing an empty query as it is: C8_TextClause tells them *)
(* apart.                                                                  *)
TextClauseVerbatim(query) ==
    IF query # Undefined THEN <<Term(query[1])>> ELSE <<>>

(* lines 101-103 *)
TextClause(query) ==
    IF query # Undefined
    THEN <<Term(IF query[1] = "" THEN "*" ELSE query[1])>>
    ELSE <<>>

Clauses(exps) == [ok |-> TRUE, clauses |-> exps]

(* searchExp.push(e) when e was built, the error thrown otherwise.         *)
Pushed(e) == IF e.ok THEN Clauses(<<e.exp>>) ELSE e

(* Lines 105-107 with the error of the filters clause swallowed:           *)
(* C6_SingleSearch tells them apart.                                       *)
PushedOrSkipped(e) == IF e.ok THEN Clauses(<<e.exp>>) ELSE Clauses(<<>>)

FiltersClauseSwallowed(filters) ==
    IF filters # Undefined /\ filters[1] # ""
    THEN PushedOrSkipped(parseAlgoliaSQL(filters[1]))
    ELSE Clauses(<<>>)

(* lines 105-107 *)
FiltersClause(filters) ==
    IF filters # Undefined /\ filters[1] # ""
    THEN Pushed(parseAlgoliaSQL(filters[1]))
    ELSE Clauses(<<>>)

(* The value of facetFilters: a string or an array. A JSON body may hold   *)
(* either; querystring.parse gives a string for a key that appears once    *)
(* and an array of strings for a key that is repeated.                     *)
StringValue(s) == [isArray |-> FALSE, str |-> s, items |-> <<>>]
ArrayValue(items) == [isArray |-> TRUE, str |-> "", items |-> items]

(* if (facetFilters): undefined and the empty string are falsy.            *)
Truthy(facetFilters) ==
    facetFilters # Undefined /\ (facetFilters[1].isArray \/ facetFilters[1].str # "")

(* lines 109-111: a string has no map method.                              *)
FacetFiltersClause(facetFilters) ==
    IF Truthy(facetFilters)
    THEN IF facetFilters[1].isArray
         THEN Pushed(FacetClause(facetFilters[1].items))
         ELSE Throw("TypeError", "facetFilters.map is not a function")
    ELSE Clauses(<<>>)

(* The clauses pushed so far, and the error thrown if any.                 *)
WithFacetFilters(exps, ff) ==
    IF ~ff.ok THEN [ok |-> FALSE, searchExp |-> exps, error |-> ff.error]
    ELSE [ok |-> TRUE, searchExp |-> exps \o ff.clauses]

WithFilters(r, exps, f) ==
    IF ~f.ok THEN [ok |-> FALSE, searchExp |-> exps, error |-> f.error]
    ELSE WithFacetFilters(exps \o f.clauses, FacetFiltersClause(r.facetFilters))

(* lines 100-111: the clauses pushed, and the error thrown if any.         *)
BuildSearchExp(r) == WithFilters(r, TextClause(r.query), FiltersClause(r.filters))

----------------------------------------------------------------------------
(* Requests.                                                               *)

QueryInputs == {Undefined, Some(""), Some("shoes")}

FiltersInputs ==
    {Undefined, Some(""), Some("a:1 AND b:2"), Some("NOT (a:1 AND b:2)"), Some("a:1 AND")}

(* facetFilters in a JSON body, and in a params query string.              *)
BodyFacetFilters ==
    {Undefined,
     Some(StringValue("a:1")),
     Some(ArrayValue(<<Bare("a:1"), Bare("b:3")>>)),
     Some(ArrayValue(<<Group(<<"a:1", "a:2">>), Bare("b:3")>>))}

ParamsFacetFilters ==
    {Undefined,
     Some(StringValue("a:1")),
     Some(ArrayValue(<<Bare("a:1"), Bare("b:3")>>))}

(* Query requests for the first page of DefaultHitsPerPage hits, unsorted. *)
QueryRequests ==
    { r \in [route : {"query"},
             viaParams : BOOLEAN,
             query : QueryInputs,
             filters : FiltersInputs,
             facetFilters : BodyFacetFilters,
             page : {0},
             hitsPerPage : {Undefined},
             sortAttribute : {FALSE},
             sortDesc : {FALSE}] :
        r.viaParams => r.facetFilters \in ParamsFacetFilters }

(* body.requests of the recommendations route *)
RecommendationsRequests ==
    { [route |-> "recommendations", requests |-> requests] :
        requests \in { <<>>,
                       <<[objectID |-> 1, maxRecommendations |-> Some(1)]>>,
                       <<[objectID |-> 3, maxRecommendations |-> Undefined],
                         [objectID |-> 1, maxRecommendations |-> Some(1)]>> } }

(* body.requests of the batch route. addObject is an action the route does *)
(* not support.                                                            *)
BatchRequests ==
    { [route |-> "batch", requests |-> requests] :
        requests \in
            { <<>>,
              <<[action |-> "updateObject", body |-> [objectID |-> "o1", a |-> 1]]>>,
              <<[action |-> "deleteObject", body |-> [objectID |-> "o2"]]>>,
              <<[action |-> "updateObject", body |-> [objectID |-> "o1", a |-> 1]],
                [action |-> "deleteObject", body |-> [objectID |-> "o2"]]>>,
              <<[action |-> "updateObject", body |-> [objectID |-> "o1", a |-> 1]],
                [action |-> "addObject", body |-> [objectID |-> "o3", a |-> 1]]>> } }

(* facetFilters of deleteByQuery, read from the params query string.       *)
DeleteByQueryRequests ==
    { [route |-> "deleteByQuery", facetFilters |-> ff] :
        ff \in {Undefined, Some(StringValue("")), Some(StringValue("a:1")),
                Some(StringValue("a:1 AND"))} }

(* The requests of the nine routes. _id of the create route is the value   *)
(* of v4() at line 151; exists of the clear route is what existIndex       *)
(* answers at line 292.                                                    *)
Requests ==
    { [route |-> "health"] }
    \cup RecommendationsRequests
    \cup QueryRequests
    \cup { [route |-> "create", _id |-> "uuid-1", body |-> [a |-> 1]] }
    \cup BatchRequests
    \cup { [route |-> "put", objectID |-> "o1", body |-> [a |-> 1]] }
    \cup { [route |-> "delete", objectID |-> "o1"] }
    \cup DeleteByQueryRequests
    \cup { [route |-> "clear", exists |-> e] : e \in BOOLEAN }

(* What db.SEARCH and db.INDEX.GET may resolve with.                       *)
IndexContents ==
    { <<>>,
      <<Item(1, Some(1), Some(1)), Item(2, Undefined, Undefined),
        Item(3, Some(1), Some(2))>> }

(* What an await of getIndex or of a call on the index rejects with.       *)
Rejected(await) == [name |-> "Error", message |-> await \o " rejected"]

----------------------------------------------------------------------------
(* A handler: the state of one request from its arrival to its end.        *)

Slots == 1..MaxInFlight

NoRequest == [route |-> "none"]

Handler(s) ==
    [pc |-> pc[s], req |-> req[s], searchExp |-> searchExp[s], dbCalls |-> dbCalls[s],
     result |-> result[s], resCalls |-> resCalls[s], thrown |-> thrown[s],
     caught |-> caught[s], unhandled |-> unhandled[s]]

Idle ==
    [pc |-> "idle", req |-> NoRequest, searchExp |-> <<>>, dbCalls |-> <<>>,
     result |-> <<>>, resCalls |-> <<>>, thrown |-> <<>>, caught |-> <<>>,
     unhandled |-> FALSE]

(* The handler is suspended at await getIndex(indexName, path).            *)
Arrived(r) == [Idle EXCEPT !.pc = "getIndex", !.req = r]

(* The handler calls op on the index and is suspended at its await.        *)
Call(h, op, args) ==
    [h EXCEPT !.pc = op, !.dbCalls = Append(@, [op |-> op, args |-> args])]

Resolved(h, value) == [h EXCEPT !.result = Append(@, value)]

(* The handler returns after the calls it made on res: its promise is      *)
(* fulfilled and the catch of the wrapper has nothing to do.               *)
Finish(h, calls) == [h EXCEPT !.pc = "done", !.resCalls = calls]

(* The handler throws error, or an await of it rejects with error: its     *)
(* promise is rejected. The catch of the wrapper is a later job; until it  *)
(* runs the other handlers may.                                            *)
Reject(h, error) == [h EXCEPT !.pc = "rejected", !.thrown = <<error>>]

(* return res.status(status).json(body): res.json throws when the headers  *)
(* were sent.                                                              *)
ReturnJson(h, status, body) ==
    IF HeadersSent(h.resCalls)
    THEN Reject([h EXCEPT !.resCalls = Json(@, status, body)], HeadersSentError)
    ELSE Finish(h, Json(h.resCalls, status, body))

(* return res.status(status).end()                                         *)
ReturnEnd(h, status) == Finish(h, End(h.resCalls, status))

----------------------------------------------------------------------------
(* The routes, each as the stretches of code between its awaits. Every     *)
(* (new Date()).toISOString() is left abstract, as "now".                   *)

(* POST /1/indexes/*/recommendations, lines 53-90 *)

(* lines 64-89: the next request of the loop, or the response *)
RecommendationsNext(h) ==
    IF Len(h.result) < Len(h.req.requests) THEN [h EXCEPT !.pc = "getIndex"]
    ELSE ReturnJson(h, 200,
                    [results |-> [i \in 1..Len(h.result) |->
                                     Recommended(h.req.requests[i], h.result[i])]])

(* POST /1/indexes/:indexName/query, lines 92-146 *)
Searching(h, b) ==
    IF b.ok THEN Call([h EXCEPT !.searchExp = b.searchExp], "SEARCH", b.searchExp)
    ELSE Reject([h EXCEPT !.searchExp = b.searchExp], b.error)

(* POST /1/indexes/:indexName/batch, lines 166-210 *)
OfAction(requests, action) == SelectSeq(requests, LAMBDA request : request.action = action)

(* lines 175-177: objectID renamed to _id *)
ToPut(body) ==
    [f \in (DOMAIN body \ {"objectID"}) \cup {"_id"} |->
        IF f = "_id" THEN body.objectID ELSE body[f]]

Puts(requests) ==
    LET updates == OfAction(requests, "updateObject")
    IN [i \in 1..Len(updates) |-> ToPut(updates[i].body)]

Deletes(requests) ==
    LET deletions == OfAction(requests, "deleteObject")
    IN [i \in 1..Len(deletions) |-> deletions[i].body.objectID]

(* line 208: the objectID of an update was deleted at line 176 *)
BatchObjectIDs(requests) ==
    [i \in 1..Len(requests) |->
        IF requests[i].action = "updateObject" THEN Undefined
        ELSE Some(requests[i].body.objectID)]

(* lines 172-190 *)
batch(r) ==
    IF \E i \in 1..Len(r.requests) :
          r.requests[i].action \notin {"updateObject", "deleteObject"}
    THEN ReturnEnd(Arrived(r), 400)
    ELSE Arrived(r)

(* lines 206-209 *)
BatchRespond(h) ==
    ReturnJson(h, 201, [taskID |-> "algolite-task-id",
                        objectIDs |-> BatchObjectIDs(h.req.requests)])

(* lines 194-196 *)
BatchDelete(h) ==
    IF Len(Deletes(h.req.requests)) > 0
    THEN Call(h, "DELETE", <<Deletes(h.req.requests)>>)
    ELSE BatchRespond(h)

(* lines 191-193 *)
BatchPut(h) ==
    IF Len(Puts(h.req.requests)) > 0
    THEN Call(h, "PUT", <<Puts(h.req.requests)>>)
    ELSE BatchDelete(h)

(* lines 197-203 *)
BatchDeleteRejected(h, notFound) ==
    IF notFound THEN BatchRespond(h) ELSE Reject(h, Rejected("DELETE"))

(* PUT /1/indexes/:indexName/:objectID, lines 212-236 *)

(* lines 226-229: {_id: objectID, ...body} *)
PutPut(h) == Call(h, "PUT", << <<h.req.body @@ [_id |-> h.req.objectID]>> >>)

(* lines 220-224 *)
PutDeleteRejected(h, notFound) ==
    IF ~notFound THEN ReturnEnd(h, 500) ELSE PutPut(h)

(* DELETE /1/indexes/:indexName/:objectID, lines 238-256 *)

(* lines 251-255 *)
DeleteRespond(h) ==
    ReturnJson(h, 200, [deletedAt |-> "now", taskID |-> "algolite-task-id",
                        objectID |-> h.req.objectID])

(* lines 245-255: the catch does not return, so the success response is    *)
(* attempted after the 500.                                                *)
DeleteDeleteRejected(h, notFound) ==
    IF ~notFound THEN DeleteRespond([h EXCEPT !.resCalls = End(@, 500)])
    ELSE DeleteRespond(h)

(* POST /1/indexes/:indexName/deleteByQuery, lines 258-287 *)

(* lines 267-279 *)
DeleteByQuerySearch(h) ==
    LET e == parseAlgoliaSQL(h.req.facetFilters[1].str) IN
    IF ~Truthy(h.req.facetFilters)
    THEN ReturnJson(h, 400,
             [message |-> "DeleteByQuery endpoint only supports tagFilters, facetFilters, numericFilters and geoQuery condition",
              status |-> 400])
    ELSE IF e.ok THEN Call([h EXCEPT !.searchExp = <<e.exp>>], "SEARCH", <<e.exp>>)
    ELSE Reject(h, e.error)

(* The handler of a request, run to its first await: GET /health (lines    *)
(* 39-43) has none; the recommendations route (lines 54-62 and 89) enters  *)
(* its loop or has nothing to loop on; the clear route (lines 289-294)     *)
(* first asks whether the index exists.                                    *)
Route(r) ==
    CASE r.route = "health" -> ReturnJson(Arrived(r), 200, [status |-> "ok"])
      [] r.route = "recommendations" ->
           IF Len(r.requests) > 0 THEN Arrived(r)
           ELSE ReturnJson(Arrived(r), 200, [results |-> <<>>])
      [] r.route = "batch" -> batch(r)
      [] r.route = "clear" ->
           IF ~r.exists THEN ReturnEnd(Arrived(r), 400) ELSE Arrived(r)
      [] OTHER -> Arrived(r)

----------------------------------------------------------------------------
(* The steps of the server: the jobs of its promises. Each handler runs     *)
(* from one await to the next without interruption, and the catch of the   *)
(* wrapper is a job of its own; between two jobs of one request those of   *)
(* the others may run.                                                     *)

(* The handler in slot s becomes h.                                        *)
Set(s, h) ==
    /\ pc' = [pc EXCEPT ![s] = h.pc]
    /\ req' = [req EXCEPT ![s] = h.req]
    /\ searchExp' = [searchExp EXCEPT ![s] = h.searchExp]
    /\ dbCalls' = [dbCalls EXCEPT ![s] = h.dbCalls]
    /\ result' = [result EXCEPT ![s] = h.result]
    /\ resCalls' = [resCalls EXCEPT ![s] = h.resCalls]
    /\ thrown' = [thrown EXCEPT ![s] = h.thrown]
    /\ caught' = [caught EXCEPT ![s] = h.caught]
    /\ unhandled' = [unhandled EXCEPT ![s] = h.unhandled]
    /\ UNCHANGED <<running, compilerVars, facetVars, bodyVars>>

(* The handler in slot s, on route, is resumed from await.                 *)
At(s, route, await) == running /\ pc[s] = await /\ req[s].route = route

(* A request arrives and its handler runs to its first await.              *)
Request(s) ==
    /\ running
    /\ pc[s] = "idle"
    /\ \E r \in Requests : \E h \in {Route(r)} : Set(s, h)

(* The exchange is over; nothing of it is kept. A rejection that nothing   *)
(* handled was only reported (Node.js before 15, or                        *)
(* --unhandled-rejections=warn).                                           *)
EndRequest(s) ==
    /\ running
    /\ pc[s] = "done"
    /\ Set(s, Idle)

(* lines 12-18: the catch of the wrapper runs for a handler whose promise  *)
(* rejected.                                                               *)
Catch(s) ==
    /\ running
    /\ pc[s] = "rejected"
    /\ \E outcome \in {wrapAsyncMiddleware(resCalls[s], thrown[s][1])} :
         Set(s, [Handler(s) EXCEPT !.pc = "done", !.thrown = <<>>,
                                   !.resCalls = outcome.resCalls,
                                   !.caught = outcome.caught,
                                   !.unhandled = outcome.unhandled])

(* The promise of the wrapper rejected and nothing handles it: once the    *)
(* jobs that were ready have run, the process exits (Node.js 15 and later, *)
(* exit code 1).                                                           *)
UnhandledRejection(s) ==
    /\ running
    /\ pc[s] = "done"
    /\ unhandled[s]
    /\ running' = FALSE
    /\ UNCHANGED <<pc, req, searchExp, dbCalls, result, resCalls, thrown, caught,
                   unhandled, compilerVars, facetVars, bodyVars>>

(* An await outside any try rejects: getIndex, db.SEARCH, db.PUT,          *)
(* db.INDEX.GET, db.INDEX.DELETE.                                          *)
AwaitRejects(s) ==
    /\ running
    /\ pc[s] \in {"getIndex", "SEARCH", "PUT", "INDEX.GET", "INDEX.DELETE"}
    /\ \E h \in {Reject(Handler(s), Rejected(pc[s]))} : Set(s, h)

RecommendationsGetIndexResolves(s) ==
    /\ At(s, "recommendations", "getIndex")
    /\ \E h \in {Call(Handler(s), "SEARCH", <<Term("*")>>)} : Set(s, h)

RecommendationsSearchResolves(s) ==
    /\ At(s, "recommendations", "SEARCH")
    /\ \E content \in IndexContents :
         \E h \in {RecommendationsNext(Resolved(Handler(s), content))} : Set(s, h)

QueryGetIndexResolves(s) ==
    /\ At(s, "query", "getIndex")
    /\ \E h \in {Searching(Handler(s), BuildSearchExp(req[s]))} : Set(s, h)

QuerySearchResolves(s) ==
    /\ At(s, "query", "SEARCH")
    /\ \E raw \in IndexContents :
         \E h \in {ReturnJson(Resolved(Handler(s), raw), 200, QueryBody(req[s], raw))} :
            Set(s, h)

CreateGetIndexResolves(s) ==
    /\ At(s, "create", "getIndex")
    /\ \E h \in {Call(Handler(s), "PUT", << <<req[s].body @@ [_id |-> req[s]._id]>> >>)} :
         Set(s, h)

CreatePutResolves(s) ==
    /\ At(s, "create", "PUT")
    /\ \E h \in {ReturnJson(Handler(s), 201,
                        [createdAt |-> "now", taskID |-> "algolite-task-id",
                         objectID |-> req[s]._id])} :
         Set(s, h)

BatchGetIndexResolves(s) ==
    /\ At(s, "batch", "getIndex")
    /\ \E h \in {BatchPut(Handler(s))} : Set(s, h)

BatchPutResolves(s) ==
    /\ At(s, "batch", "PUT")
    /\ \E h \in {BatchDelete(Handler(s))} : Set(s, h)

BatchDeleteResolves(s) ==
    /\ At(s, "batch", "DELETE")
    /\ \E h \in {BatchRespond(Handler(s))} : Set(s, h)

BatchDeleteRejects(s) ==
    /\ At(s, "batch", "DELETE")
    /\ \E notFound \in BOOLEAN :
         \E h \in {BatchDeleteRejected(Handler(s), notFound)} : Set(s, h)

PutGetIndexResolves(s) ==
    /\ At(s, "put", "getIndex")
    /\ \E h \in {Call(Handler(s), "DELETE", << <<req[s].objectID>> >>)} : Set(s, h)

PutDeleteResolves(s) ==
    /\ At(s, "put", "DELETE")
    /\ \E h \in {PutPut(Handler(s))} : Set(s, h)

PutDeleteRejects(s) ==
    /\ At(s, "put", "DELETE")
    /\ \E notFound \in BOOLEAN :
         \E h \in {PutDeleteRejected(Handler(s), notFound)} : Set(s, h)

PutPutResolves(s) ==
    /\ At(s, "put", "PUT")
    /\ \E h \in {ReturnJson(Handler(s), 201,
                        [updatedAt |-> "now", taskID |-> "algolite-task-id",
                         objectID |-> req[s].objectID])} :
         Set(s, h)

DeleteGetIndexResolves(s) ==
    /\ At(s, "delete", "getIndex")
    /\ \E h \in {Call(Handler(s), "DELETE", << <<req[s].objectID>> >>)} : Set(s, h)

DeleteDeleteResolves(s) ==
    /\ At(s, "delete", "DELETE")
    /\ \E h \in {DeleteRespond(Handler(s))} : Set(s, h)

DeleteDeleteRejects(s) ==
    /\ At(s, "delete", "DELETE")
    /\ \E notFound \in BOOLEAN :
         \E h \in {DeleteDeleteRejected(Handler(s), notFound)} : Set(s, h)

DeleteByQueryGetIndexResolves(s) ==
    /\ At(s, "deleteByQuery", "getIndex")
    /\ \E h \in {DeleteByQuerySearch(Handler(s))} : Set(s, h)

DeleteByQuerySearchResolves(s) ==
    /\ At(s, "deleteByQuery", "SEARCH")
    /\ \E res \in IndexContents :
         \E h \in {Call(Resolved(Handler(s), res), "INDEX.DELETE", <<Ids(res)>>)} :
            Set(s, h)

DeleteByQueryDeleteResolves(s) ==
    /\ At(s, "deleteByQuery", "INDEX.DELETE")
    /\ \E h \in {ReturnJson(Handler(s), 201,
                        [updatedAt |-> "now", taskID |-> "algolite-task-id"])} :
         Set(s, h)

ClearGetIndexResolves(s) ==
    /\ At(s, "clear", "getIndex")
    /\ \E h \in {Call(Handler(s), "INDEX.GET", <<"">>)} : Set(s, h)

ClearGetResolves(s) ==
    /\ At(s, "clear", "INDEX.GET")
    /\ \E res \in IndexContents :
         \E h \in {Call(Resolved(Handler(s), res), "INDEX.DELETE", <<Ids(res)>>)} :
            Set(s, h)

ClearDeleteResolves(s) ==
    /\ At(s, "clear", "INDEX.DELETE")
    /\ \E h \in {ReturnJson(Handler(s), 200, [taskID |-> "algolite-task-id"])} : Set(s, h)

Init ==
    /\ pc = [s \in Slots |-> "idle"]
    /\ req = [s \in Slots |-> NoRequest]
    /\ searchExp = [s \in Slots |-> <<>>]
    /\ dbCalls = [s \in Slots |-> <<>>]
    /\ result = [s \in Slots |-> <<>>]
    /\ resCalls = [s \in Slots |-> <<>>]
    /\ thrown = [s \in Slots |-> <<>>]
    /\ caught = [s \in Slots |-> <<>>]
    /\ unhandled = [s \in Slots |-> FALSE]
    /\ running = TRUE
    /\ rule = Unknown
    /\ compiled = <<>>
    /\ facets = <<>>
    /\ facetExp = <<>>
    /\ search = [req |-> NoRequest, result |-> <<>>]
    /\ response = <<>>

Next ==
    \E s \in Slots :
        \/ Request(s)
        \/ EndRequest(s)
        \/ Catch(s)
        \/ UnhandledRejection(s)
        \/ AwaitRejects(s)
        \/ RecommendationsGetIndexResolves(s)
        \/ RecommendationsSearchResolves(s)
        \/ QueryGetIndexResolves(s)
        \/ QuerySearchResolves(s)
        \/ CreateGetIndexResolves(s)
        \/ CreatePutResolves(s)
        \/ BatchGetIndexResolves(s)
        \/ BatchPutResolves(s)
        \/ BatchDeleteResolves(s)
        \/ BatchDeleteRejects(s)
        \/ PutGetIndexResolves(s)
        \/ PutDeleteResolves(s)
        \/ PutDeleteRejects(s)
        \/ PutPutResolves(s)
        \/ DeleteGetIndexResolves(s)
        \/ DeleteDeleteResolves(s)
        \/ DeleteDeleteRejects(s)
        \/ DeleteByQueryGetIndexResolves(s)
        \/ DeleteByQuerySearchResolves(s)
        \/ DeleteByQueryDeleteResolves(s)
        \/ ClearGetIndexResolves(s)
        \/ ClearGetResolves(s)
        \/ ClearDeleteResolves(s)

Spec == Init /\ [][Next]_vars

(* The compiler alone, the facet clause alone, the response body alone.    *)
NextCompiler == Compile /\ UNCHANGED <<handlerVars, facetVars, bodyVars>>

InitCompilerAlone ==
    /\ rule \in Trees
    /\ compiled = <<>>
    /\ facets = <<>>
    /\ facetExp = <<>>
    /\ search = [req |-> NoRequest, result |-> <<>>]
    /\ response = <<>>
    /\ pc = [s \in Slots |-> "idle"]
    /\ req = [s \in Slots |-> NoRequest]
    /\ searchExp = [s \in Slots |-> <<>>]
    /\ dbCalls = [s \in Slots |-> <<>>]
    /\ result = [s \in Slots |-> <<>>]
    /\ resCalls = [s \in Slots |-> <<>>]
    /\ thrown = [s \in Slots |-> <<>>]
    /\ caught = [s \in Slots |-> <<>>]
    /\ unhandled = [s \in Slots |-> FALSE]
    /\ running = TRUE

SpecCompiler == InitCompilerAlone /\ [][NextCompiler]_vars

NextFacet == BuildFacet /\ UNCHANGED <<handlerVars, compilerVars, bodyVars>>

InitFacetAlone ==
    /\ facets \in FacetLists
    /\ facetExp = <<>>
    /\ rule = Unknown
    /\ compiled = <<>>
    /\ search = [req |-> NoRequest, result |-> <<>>]
    /\ response = <<>>
    /\ pc = [s \in Slots |-> "idle"]
    /\ req = [s \in Slots |-> NoRequest]
    /\ searchExp = [s \in Slots |-> <<>>]
    /\ dbCalls = [s \in Slots |-> <<>>]
    /\ result = [s \in Slots |-> <<>>]
    /\ resCalls = [s \in Slots |-> <<>>]
    /\ thrown = [s \in Slots |-> <<>>]
    /\ caught = [s \in Slots |-> <<>>]
    /\ unhandled = [s \in Slots |-> FALSE]
    /\ running = TRUE

SpecFacet == InitFacetAlone /\ [][NextFacet]_vars

NextBody == BuildBody /\ UNCHANGED <<handlerVars, compilerVars, facetVars>>

InitBodyAlone ==
    /\ search \in [req : PagedRequests, result : Results]
    /\ response = <<>>
    /\ rule = Unknown
    /\ compiled = <<>>
    /\ facets = <<>>
    /\ facetExp = <<>>
    /\ pc = [s \in Slots |-> "idle"]
    /\ req = [s \in Slots |-> NoRequest]
    /\ searchExp = [s \in Slots |-> <<>>]
    /\ dbCalls = [s \in Slots |-> <<>>]
    /\ result = [s \in Slots |-> <<>>]
    /\ resCalls = [s \in Slots |-> <<>>]
    /\ thrown = [s \in Slots |-> <<>>]
    /\ caught = [s \in Slots |-> <<>>]
    /\ unhandled = [s \in Slots |-> FALSE]
    /\ running = TRUE

SpecBody == InitBodyAlone /\ [][NextBody]_vars

----------------------------------------------------------------------------
(* Properties.                                                             *)

(* The body was built from the result of the search.                       *)
BodyBuilt == response # <<>>

RequestedHitsPerPage ==
    IF search.req.hitsPerPage = Undefined THEN DefaultHitsPerPage
    ELSE search.req.hitsPerPage[1]

AllHits == SortedHits(search.result, search.req.sortAttribute, search.req.sortDesc)

(* C1: a query response holds the hits at positions [p*h, p*h + h) of the  *)
(* sorted hit list: h hits on every page but the last, the rest on the     *)
(* last page, none past the end.                                           *)
C1_PageWindow ==
    BodyBuilt =>
        LET h == RequestedHitsPerPage
            first == search.req.page * h
            count == Max(0, Min(h, Len(AllHits) - first))
        IN response[1].hits = [i \in 1..count |-> AllHits[first + i]]

PositionOf(hits, id) == CHOOSE i \in 1..Len(hits) : hits[i].objectID = id

(* C2: the sort of the query route is stable: two hits with equal          *)
(* sortAttribute values keep the order they had in the search result,      *)
(* ascending or descending.                                                *)
C2_StableSort ==
    (BodyBuilt /\ search.req.sortAttribute) =>
        \A i, j \in 1..Len(search.result) :
            (/\ i < j
             /\ search.result[i].obj.price # Undefined
             /\ search.result[i].obj.price = search.result[j].obj.price)
            => PositionOf(AllHits, i) < PositionOf(AllHits, j)

KnownTokens == {"MATCH", "AND", "OR", "NOT"}

(* A Not node whose operand is not a Match node, anywhere in the tree.     *)
RECURSIVE HasBadNot(_)
HasBadNot(t) ==
    CASE TokenOf(t) = "NOT" -> TokenOf(t.value) # "MATCH"
      [] TokenOf(t) \in {"AND", "OR"} -> HasBadNot(t.left) \/ HasBadNot(t.right)
      [] OTHER -> FALSE

(* A node with an unrecognised tag, anywhere but under a Not node.         *)
RECURSIVE HasUnknown(_)
HasUnknown(t) ==
    CASE TokenOf(t) \notin KnownTokens -> TRUE
      [] TokenOf(t) \in {"AND", "OR"} -> HasUnknown(t.left) \/ HasUnknown(t.right)
      [] OTHER -> FALSE

LeafString(m) ==
    CASE m = Match("a", StringLit("x")) -> "a:x"
      [] m = Match("b", NumberLit(1)) -> "b:1"

NotOnlyMatch == [ok |-> FALSE, error |-> [name |-> "Error", message |-> "NOT only supports MATCH"]]
UnknownToken == [ok |-> FALSE, error |-> [name |-> "Error", message |-> "UNKNOWN TOKEN"]]

(* C3: Not over a Match compiles to NOT('*', "key:value"); Not over any    *)
(* other node fails with 'NOT only supports MATCH' wherever it sits in the *)
(* tree and no expression is returned; a node with an unrecognised tag     *)
(* fails with 'UNKNOWN TOKEN'.                                             *)
C3_NotCompilation ==
    compiled # <<>> =>
        /\ (TokenOf(rule) = "NOT" /\ TokenOf(rule.value) = "MATCH")
            => compiled[1] = [ok |-> TRUE,
                              exp |-> [op |-> "NOT",
                                       args |-> <<[op |-> "TERM", term |-> "*"],
                                                  [op |-> "TERM", term |-> LeafString(rule.value)]>>]]
        /\ HasBadNot(rule) => ~compiled[1].ok
        /\ (HasBadNot(rule) /\ ~HasUnknown(rule)) => compiled[1] = NotOnlyMatch
        /\ (HasUnknown(rule) /\ ~HasBadNot(rule)) => compiled[1] = UnknownToken
        /\ TokenOf(rule) \notin KnownTokens => compiled[1] = UnknownToken
        /\ ~compiled[1].ok => compiled[1] \in {NotOnlyMatch, UnknownToken}

C3_Witness ==
    /\ compiled = <<NotOnlyMatch>>
    /\ TokenOf(rule) = "AND"
    /\ TokenOf(rule.right) = "NOT"
    /\ TokenOf(rule.right.value) = "AND"

QueryRoute(s) == req[s].route = "query"

(* The filters clause of the request in slot s cannot be built.            *)
FiltersGiven(s) == QueryRoute(s) /\ req[s].filters # Undefined /\ req[s].filters[1] # ""
FiltersFailed(s) == FiltersGiven(s) /\ ~parseAlgoliaSQL(req[s].filters[1]).ok

(* The index could not be obtained: the await of getIndex rejected.        *)
NoIndex(s) == caught[s] = <<[name |-> "Error", message |-> "getIndex rejected"]>>

(* The one response every failure gets.                                    *)
GenericFailure ==
    [method |-> "json",
     status |-> 400,
     body |-> <<[message |-> "Internal server error", status |-> 500]>>,
     delivered |-> TRUE]

(* C4 as stated: a filters clause that fails to parse or compile fails the *)
(* request with a client error that carries the kind of the failure, not   *)
(* a server fault.                                                         *)
C4_ErrorKindSurfaced ==
    \A s \in Slots :
        (pc[s] = "done" /\ FiltersFailed(s) /\ ~NoIndex(s)) =>
            /\ Len(resCalls[s]) = 1
            /\ resCalls[s][1].status \in 400..499
            /\ resCalls[s][1].body[1].status \in 400..499
            /\ resCalls[s][1].body[1].message = caught[s][1].message

(* C4, amended: a filters clause that fails to parse or compile fails the  *)
(* request before any search; no hits are returned; the client gets the    *)
(* response every failure gets, HTTP status 400 with the body              *)
(* {message: 'Internal server error', status: 500}, the same for a syntax  *)
(* error, an unsupported filter and a failure of the index.                *)
C4_GenericFailure ==
    \A s \in Slots :
        /\ (pc[s] = "done" /\ FiltersFailed(s)) =>
            /\ NoIndex(s) \/ caught[s] = <<parseAlgoliaSQL(req[s].filters[1]).error>>
            /\ dbCalls[s] = <<>>
            /\ result[s] = <<>>
            /\ resCalls[s] = <<GenericFailure>>
        /\ (pc[s] = "done" /\ QueryRoute(s) /\ caught[s] # <<>>) =>
            resCalls[s] = <<GenericFailure>>

C4_Witness ==
    \E s \in Slots :
        /\ pc[s] = "done"
        /\ FiltersFailed(s)
        /\ caught[s] = <<[name |-> "Error", message |-> "NOT only supports MATCH"]>>
        /\ resCalls[s][1].status = 400

RECURSIVE FlattenAnd(_)
FlattenAnd(e) ==
    IF e.op = "AND" THEN FlattenAnd(e.args[1]) \o FlattenAnd(e.args[2]) ELSE <<e>>

RECURSIVE FlattenOr(_)
FlattenOr(e) ==
    IF e.op = "OR" THEN FlattenOr(e.args[1]) \o FlattenOr(e.args[2]) ELSE <<e>>

Leaf(s) == [op |-> "TERM", term |-> s]

(* What the claim says an element of facetFilters compiles to.             *)
ElementMatches(e, f) ==
    IF f.array
    THEN /\ FlattenOr(e) = [j \in 1..Len(f.items) |-> Leaf(f.items[j])]
         /\ Len(f.items) > 1 => e.op = "OR"
    ELSE e = Leaf(f.str)

ExampleFacets == <<Group(<<"a:1", "a:2">>), Bare("b:3")>>

ExampleExp ==
    [op |-> "AND",
     args |-> <<[op |-> "OR", args |-> <<Leaf("a:1"), Leaf("a:2")>>], Leaf("b:3")>>]

(* C5: the facet clause is the AND, over the elements of facetFilters in   *)
(* order, of each element's expression: its Match leaf for a string, the   *)
(* OR of its members in order for a list; a single element gives that      *)
(* element's expression alone.                                             *)
C5_FacetClause ==
    (facetExp # <<>> /\ Len(facets) >= 1) =>
        /\ facetExp[1].ok
        /\ LET operands == FlattenAnd(facetExp[1].exp) IN
           /\ Len(operands) = Len(facets)
           /\ \A i \in 1..Len(facets) : ElementMatches(operands[i], facets[i])
        /\ Len(facets) = 1 => facetExp[1].exp.op # "AND"
        /\ facets = ExampleFacets => facetExp[1].exp = ExampleExp

C5_Witness ==
    /\ facets = ExampleFacets
    /\ facetExp = <<[ok |-> TRUE, exp |-> ExampleExp]>>

SearchCalls(s) == SelectSeq(dbCalls[s], LAMBDA c : c.op = "SEARCH")

FacetFiltersGiven(s) == QueryRoute(s) /\ Truthy(req[s].facetFilters)
FacetFiltersFailed(s) ==
    /\ FacetFiltersGiven(s)
    /\ \/ ~req[s].facetFilters[1].isArray
       \/ ~FacetClause(req[s].facetFilters[1].items).ok

ClausesPresent(s) ==
    (IF req[s].query # Undefined THEN 1 ELSE 0)
    + (IF FiltersGiven(s) THEN 1 ELSE 0)
    + (IF FacetFiltersGiven(s) THEN 1 ELSE 0)

SearchFailed == [name |-> "Error", message |-> "SEARCH rejected"]

(* C6: a query request makes one search call, after every present clause   *)
(* was built and with all of them; a failed search is not retried and its  *)
(* failure is the request's; when the filters or facetFilters clause       *)
(* cannot be built there is no search call. (The one call is made once the *)
(* index was obtained: none before, none when it cannot be obtained.)      *)
C6_SingleSearch ==
    \A s \in Slots : QueryRoute(s) =>
        /\ Len(SearchCalls(s)) <= 1
        /\ dbCalls[s] = SearchCalls(s)
        /\ (pc[s] = "getIndex" \/ NoIndex(s)) => dbCalls[s] = <<>>
        /\ (/\ pc[s] \in {"SEARCH", "done"}
            /\ ~NoIndex(s)
            /\ ~FiltersFailed(s)
            /\ ~FacetFiltersFailed(s)) =>
            /\ Len(dbCalls[s]) = 1
            /\ dbCalls[s][1].args = searchExp[s]
            /\ Len(dbCalls[s][1].args) = ClausesPresent(s)
        /\ (FiltersFailed(s) \/ FacetFiltersFailed(s)) => dbCalls[s] = <<>>
        /\ (pc[s] = "done" /\ dbCalls[s] # <<>> /\ result[s] = <<>>) =>
            /\ Len(dbCalls[s]) = 1
            /\ caught[s] = <<SearchFailed>>
            /\ \A i \in 1..Len(resCalls[s]) : resCalls[s][i].status # 200

C6_Witness ==
    \E s \in Slots :
        /\ pc[s] = "done"
        /\ QueryRoute(s)
        /\ caught[s] = <<SearchFailed>>
        /\ Len(dbCalls[s]) = 1
        /\ Len(dbCalls[s][1].args) = 3

RECURSIVE Expected(_)
Expected(t) ==
    CASE t.token = "MATCH" -> Leaf(LeafString(t))
      [] t.token = "AND" -> [op |-> "AND", args |-> <<Expected(t.left), Expected(t.right)>>]
      [] t.token = "OR" -> [op |-> "OR", args |-> <<Expected(t.left), Expected(t.right)>>]

RECURSIVE Positive(_)
Positive(t) ==
    CASE TokenOf(t) = "MATCH" -> TRUE
      [] TokenOf(t) \in {"AND", "OR"} -> Positive(t.left) /\ Positive(t.right)
      [] OTHER -> FALSE

(* C7: an AST of Match, And and Or nodes compiles to an expression of the  *)
(* same shape: "key:value" for a Match, AND(left, right) for an And,       *)
(* OR(left, right) for an Or, operands in order.                           *)
C7_PositiveShape ==
    (compiled # <<>> /\ Positive(rule)) =>
        compiled[1] = [ok |-> TRUE, exp |-> Expected(rule)]

C7_Witness ==
    /\ compiled # <<>>
    /\ Positive(rule)
    /\ rule.token = "AND"
    /\ rule.left.token = "OR"
    /\ rule.right = Match("b", NumberLit(1))
    /\ compiled[1].ok
    /\ compiled[1].exp.args[2] = Leaf("b:1")

FilterClausesPresent(s) ==
    (IF FiltersGiven(s) THEN 1 ELSE 0) + (IF FacetFiltersGiven(s) THEN 1 ELSE 0)

(* C8: the text clause of the search call depends on query alone: query    *)
(* itself when it is not empty, '*' when it is empty, no clause when it is *)
(* absent.                                                                 *)
C8_TextClause ==
    \A s \in Slots : (QueryRoute(s) /\ dbCalls[s] # <<>>) =>
        LET args == dbCalls[s][1].args IN
        /\ req[s].query = Undefined => Len(args) = FilterClausesPresent(s)
        /\ req[s].query # Undefined =>
            /\ Len(args) = FilterClausesPresent(s) + 1
            /\ req[s].query[1] = "" => args[1] = Leaf("*")
            /\ req[s].query[1] # "" => args[1] = Leaf(req[s].query[1])

C8_Witness ==
    \E s \in Slots :
        /\ QueryRoute(s)
        /\ dbCalls[s] # <<>>
        /\ req[s].query = <<"">>
        /\ dbCalls[s][1].args[1] = Leaf("*")
        /\ Len(dbCalls[s][1].args) = 2

(* C9: nbHits is the number of matches of the search, whatever the page,   *)
(* and nbPages is the ceiling of nbHits / hitsPerPage: the least number of *)
(* pages of hitsPerPage hits that hold nbHits hits.                        *)
C9_PageCount ==
    BodyBuilt =>
        /\ response[1].nbHits = Len(search.result)
        /\ response[1].nbPages >= 0
        /\ response[1].nbPages * RequestedHitsPerPage >= response[1].nbHits
        /\ (response[1].nbPages - 1) * RequestedHitsPerPage < response[1].nbHits

C9_Witness ==
    /\ BodyBuilt
    /\ search.req.page = 1
    /\ RequestedHitsPerPage = 2
    /\ response[1].nbHits = 3
    /\ response[1].nbPages = 2

(* C10: every request sends exactly one response, and the wrapper never    *)
(* has to answer a request that was already answered.                      *)
C10_OneResponse ==
    \A s \in Slots : pc[s] = "done" => (Len(resCalls[s]) = 1 /\ ~unhandled[s])

============================================================================
